---- MODULE Spec2Model ----
(***************************************************************************)
(* Model of the concurrency-controlled booking core of server.py:          *)
(* the admission semaphore, the lazily created per-room locks, the         *)
(* check-and-insert transaction of create_booking, approve_booking and     *)
(* reject_booking, and the ReaderWriterLock class.                         *)
(*                                                                         *)
(* Flask serves every request on a thread of its own.  The threads that    *)
(* serve /api/request run the same code and carry no identity of their     *)
(* own, so they are kept as a bag of local states (position, request body, *)
(* local variables, response) rather than as an array indexed by thread.   *)
(***************************************************************************)
EXTENDS Integers, Sequences, FiniteSets, Bags, TLC

(* ------------------------------ bounds --------------------------------- *)
\* calls of /api/request in the ledger specification
NumClients == 2
\* calls of /api/request in the admission specification
NumAdmClients == 6
\* room identifiers
NumRooms == 2
\* threads that use the ReaderWriterLock
NumRW == 3
\* readings of the wall clock, in hours, range over 1..MaxClock
MaxClock == 2
\* whole days that the wall clock may advance after that
MaxDays == 3
\* calls of /api/request in the listing specification
NumListClients == 1
\* calls of /api/request in the reservation specification
NumReserveClients == 3
\* frames of wrapper that the interpreter allows (sys.getrecursionlimit(),
\* 1000 unless changed) in the transaction specification
MaxDepth == 3

(* ------------------------- program constants --------------------------- *)
\* threading.Semaphore(5)
Capacity == 5

NULL == 0

Rooms == 1..NumRooms
RWThreads == 1..NumRW

\* the intervals <<start, end>> requested in the ledger specification: one
\* that strictly contains another, one that abuts it, one that is empty
Intervals == {<<1, 4>>, <<2, 3>>, <<3, 4>>, <<3, 3>>}

VARIABLES
    bookings,          \* the bookings table: row i has id i
    now,               \* datetime.now()
    booking_semaphore, \* value of the counting semaphore
    room_locks,        \* room -> lock object (NULL: no entry)
    room_locks_mutex,  \* TRUE while a worker holds the registry mutex
    locked,            \* lock object -> TRUE while held; the locks created
    db_exclusive,      \* TRUE while a connection holds the EXCLUSIVE lock
    workers,           \* bag of the workers' local states
    readers,           \* ReaderWriterLock.readers
    writers,           \* ReaderWriterLock.writers
    read_ready,        \* holder of the lock of condition read_ready
    write_ready,       \* holder of the lock of condition write_ready
    read_waiting,      \* threads blocked in read_ready.wait()
    write_waiting,     \* threads blocked in write_ready.wait()
    rw_pc,             \* position of each thread that uses the lock
    behind,            \* history: reader -> the writers that were waiting
                       \* when its acquire_read began and still are
    response,          \* the last answer of get_bookings
    txn                \* a call of a function wrapped by with_db_transaction

book_vars == <<bookings, now, booking_semaphore, room_locks,
               room_locks_mutex, locked, db_exclusive, workers>>

rw_vars == <<readers, writers, read_ready, write_ready, read_waiting,
             write_waiting, rw_pc, behind>>

api_vars == <<response, txn>>

vars == <<book_vars, rw_vars, api_vars>>

NoData == [room |-> NULL, start |-> NULL, end |-> NULL,
           priority |-> "none", kind |-> "none"]

\* the thread of a request that has not arrived yet
IdleWorker ==
    [pc |-> "idle", data |-> NoData, room_lock |-> NULL, result |-> "none"]

\* no call of get_bookings has been answered yet
NoResponse == [status |-> "none", bookings |-> <<>>]

\* no call of a wrapped function is in progress
IdleTxn == [pc |-> "idle", depth |-> 0, result |-> "none"]

\* request bodies: complete ones, one without 'purpose' per room, and one
\* without 'room'
Requests(rooms, intervals, priorities) ==
    {[room |-> r, start |-> i[1], end |-> i[2], priority |-> p, kind |-> k] :
        r \in rooms, i \in intervals, p \in priorities, k \in {"ok"}}
    \cup {[room |-> r, start |-> 1, end |-> 2, priority |-> "normal",
           kind |-> "nopurpose"] : r \in rooms}
    \cup {[room |-> NULL, start |-> NULL, end |-> NULL, priority |-> "normal",
           kind |-> "noroom"]}

\* the workers at position p
At(p) == {w \in BagToSet(workers) : w.pc = p}

\* one worker leaves local state w for local state v
Move(w, v) == workers' = (workers (-) SetToBag({w})) (+) SetToBag({v})

\* number of workers whose local state is in S
CountIn(S) ==
    BagCardinality([w \in S \cap BagToSet(workers) |-> workers[w]])

InitWith(n, rows) ==
    /\ bookings = rows
    /\ now = 1
    /\ booking_semaphore = Capacity
    /\ room_locks = [r \in Rooms |-> NULL]
    /\ room_locks_mutex = FALSE
    /\ locked = <<>>
    /\ db_exclusive = FALSE
    /\ workers = [w \in {IdleWorker} |-> n]
    /\ readers = 0
    /\ writers = 0
    /\ read_ready = NULL
    /\ write_ready = NULL
    /\ read_waiting = {}
    /\ write_waiting = {}
    /\ rw_pc = [t \in RWThreads |-> "idle"]
    /\ behind = [t \in RWThreads |-> {}]
    /\ response = NoResponse
    /\ txn = IdleTxn

Init == InitWith(NumClients, <<>>)

(* --------------------------- create_booking ---------------------------- *)

\* a gate that admits every caller
TryAcquireAlways == TRUE

\* booking_semaphore.acquire(blocking=False)
TryAcquire == booking_semaphore > 0

\* a gate that makes the caller wait for a slot: acquire() without
\* blocking=False
ArriveBlocking(w, d) ==
    /\ w.pc = "idle"
    /\ TryAcquire
    /\ booking_semaphore' = booking_semaphore - 1
    /\ IF d.kind = "noroom"
         THEN Move(w, [w EXCEPT !.pc = "release", !.data = d,
                                !.result = "error_500"])
         ELSE Move(w, [w EXCEPT !.pc = "get_room_lock", !.data = d])
    /\ UNCHANGED <<rw_vars, api_vars>>
    /\ UNCHANGED <<bookings, now, room_locks, room_locks_mutex, locked,
                   db_exclusive>>

\* lines 592-600: the admission gate, then the request body is read;
\* data['room'] raises KeyError when the field is missing, and the
\* exception leaves through the outer finally
Arrive(w, d) ==
    /\ w.pc = "idle"
    /\ IF TryAcquire
         THEN /\ booking_semaphore' = booking_semaphore - 1
              /\ IF d.kind = "noroom"
                   THEN Move(w, [w EXCEPT !.pc = "release", !.data = d,
                                          !.result = "error_500"])
                   ELSE Move(w, [w EXCEPT !.pc = "get_room_lock",
                                          !.data = d])
         ELSE /\ Move(w, [w EXCEPT !.pc = "done", !.result = "busy_503"])
              /\ UNCHANGED booking_semaphore
    /\ UNCHANGED <<rw_vars, api_vars>>
    /\ UNCHANGED <<bookings, now, room_locks, room_locks_mutex, locked,
                   db_exclusive>>

\* line 107: with room_locks_mutex
GetRoomLockEnter(w) ==
    /\ w.pc = "get_room_lock"
    /\ ~room_locks_mutex
    /\ room_locks_mutex' = TRUE
    /\ Move(w, [w EXCEPT !.pc = "in_registry"])
    /\ UNCHANGED <<rw_vars, api_vars>>
    /\ UNCHANGED <<bookings, now, booking_semaphore, room_locks, locked,
                   db_exclusive>>

\* a registry that makes a new lock on every call
AlwaysMissing(room_id) == TRUE

\* line 108: if room_id not in room_locks
MissingLock(room_id) == room_locks[room_id] = NULL

\* lines 108-110: create the lock when missing, return it, leave the mutex
GetRoomLockReturn(w) ==
    /\ w.pc = "in_registry"
    /\ LET room_id == w.data.room
           fresh == Len(locked) + 1
       IN  IF MissingLock(room_id)
             THEN /\ locked' = Append(locked, FALSE)
                  /\ room_locks' = [room_locks EXCEPT ![room_id] = fresh]
                  /\ Move(w, [w EXCEPT !.pc = "acquire_room_lock",
                                       !.room_lock = fresh])
             ELSE /\ Move(w, [w EXCEPT !.pc = "acquire_room_lock",
                                       !.room_lock = room_locks[room_id]])
                  /\ UNCHANGED <<locked, room_locks>>
    /\ room_locks_mutex' = FALSE
    /\ UNCHANGED <<rw_vars, api_vars>>
    /\ UNCHANGED <<bookings, now, booking_semaphore, db_exclusive>>

\* a block that is entered without waiting for the lock
AcquireRoomLockAnyway(w) ==
    /\ w.pc = "acquire_room_lock"
    /\ locked' = [locked EXCEPT ![w.room_lock] = TRUE]
    /\ Move(w, [w EXCEPT !.pc = "begin"])
    /\ UNCHANGED <<rw_vars, api_vars>>
    /\ UNCHANGED <<bookings, now, booking_semaphore, room_locks,
                   room_locks_mutex, db_exclusive>>

\* line 606: with room_lock (blocking acquire)
AcquireRoomLock(w) ==
    /\ w.pc = "acquire_room_lock"
    /\ ~locked[w.room_lock]
    /\ locked' = [locked EXCEPT ![w.room_lock] = TRUE]
    /\ Move(w, [w EXCEPT !.pc = "begin"])
    /\ UNCHANGED <<rw_vars, api_vars>>
    /\ UNCHANGED <<bookings, now, booking_semaphore, room_locks,
                   room_locks_mutex, db_exclusive>>

\* lines 608-612: connect and BEGIN EXCLUSIVE, granted
Begin(w) ==
    /\ w.pc = "begin"
    /\ ~db_exclusive
    /\ db_exclusive' = TRUE
    /\ Move(w, [w EXCEPT !.pc = "query"])
    /\ UNCHANGED <<rw_vars, api_vars>>
    /\ UNCHANGED <<bookings, now, booking_semaphore, room_locks,
                   room_locks_mutex, locked>>

\* lines 612, 657-662: BEGIN EXCLUSIVE times out while another connection
\* holds the database: sqlite3.OperationalError
BeginTimeout(w) ==
    /\ w.pc = "begin"
    /\ db_exclusive
    /\ Move(w, [w EXCEPT !.pc = "unlock", !.result = "locked_503"])
    /\ UNCHANGED <<rw_vars, api_vars>>
    /\ UNCHANGED <<bookings, now, booking_semaphore, room_locks,
                   room_locks_mutex, locked, db_exclusive>>

\* lines 616-620: the WHERE clause of the availability query, for one row.
\* start_time and end_time are ISO texts of one format, which SQLite orders
\* as the instants they denote.
RowMatches(row, room_id, start, end) ==
    /\ row.room = room_id
    /\ row.status = "approved"
    /\ \/ (row.start <= start /\ row.end > start)
       \/ (row.start < end /\ row.end >= end)

\* SELECT COUNT(*) ... > 0
RoomTaken(room_id, start, end) ==
    \E i \in 1..Len(bookings) : RowMatches(bookings[i], room_id, start, end)

\* the row written by the INSERT of lines 632-646
NewRow(d) ==
    [room |-> d.room, start |-> d.start, end |-> d.end, status |-> "pending",
     priority |-> d.priority, timestamp |-> now, approved_at |-> NULL,
     rejected_at |-> NULL]

\* a check that runs after the row was written and does not roll it back
QueryStoring(w) ==
    /\ w.pc = "query"
    /\ IF RoomTaken(w.data.room, w.data.start, w.data.end)
         THEN /\ db_exclusive' = FALSE
              /\ bookings' = Append(bookings, NewRow(w.data))
              /\ Move(w, [w EXCEPT !.pc = "unlock", !.result = "conflict_409"])
         ELSE /\ Move(w, [w EXCEPT !.pc = "insert"])
              /\ UNCHANGED <<db_exclusive, bookings>>
    /\ UNCHANGED <<rw_vars, api_vars>>
    /\ UNCHANGED <<now, booking_semaphore, room_locks, room_locks_mutex,
                   locked>>

\* a 409 branch that gives the slot back inside `with room_lock`, before
\* the outer finally gives it back again
QueryReleasingSlot(w) ==
    /\ w.pc = "query"
    /\ IF RoomTaken(w.data.room, w.data.start, w.data.end)
         THEN /\ db_exclusive' = FALSE
              /\ booking_semaphore' = booking_semaphore + 1
              /\ Move(w, [w EXCEPT !.pc = "unlock", !.result = "conflict_409"])
         ELSE /\ Move(w, [w EXCEPT !.pc = "insert"])
              /\ UNCHANGED <<db_exclusive, booking_semaphore>>
    /\ UNCHANGED <<rw_vars, api_vars>>
    /\ UNCHANGED <<bookings, now, room_locks, room_locks_mutex, locked>>

\* lines 616-627: the availability query; on a match, rollback and 409
Query(w) ==
    /\ w.pc = "query"
    /\ IF RoomTaken(w.data.room, w.data.start, w.data.end)
         THEN /\ db_exclusive' = FALSE
              /\ Move(w, [w EXCEPT !.pc = "unlock", !.result = "conflict_409"])
         ELSE /\ Move(w, [w EXCEPT !.pc = "insert"])
              /\ UNCHANGED db_exclusive
    /\ UNCHANGED <<rw_vars, api_vars>>
    /\ UNCHANGED <<bookings, now, booking_semaphore, room_locks,
                   room_locks_mutex, locked>>

\* lines 630-669: INSERT and commit; data['purpose'] raises KeyError when
\* the field is missing, which rolls back and answers 500
Insert(w) ==
    /\ w.pc = "insert"
    /\ IF w.data.kind = "nopurpose"
         THEN /\ Move(w, [w EXCEPT !.pc = "unlock", !.result = "error_500"])
              /\ UNCHANGED bookings
         ELSE /\ bookings' = Append(bookings, NewRow(w.data))
              /\ Move(w, [w EXCEPT !.pc = "unlock", !.result = "ok_200"])
    /\ db_exclusive' = FALSE
    /\ UNCHANGED <<rw_vars, api_vars>>
    /\ UNCHANGED <<now, booking_semaphore, room_locks, room_locks_mutex,
                   locked>>

\* a block that is left with the lock still held
ReleaseRoomLockKept(w) ==
    /\ w.pc = "unlock"
    /\ Move(w, [w EXCEPT !.pc = "release"])
    /\ UNCHANGED <<rw_vars, api_vars>>
    /\ UNCHANGED <<bookings, now, booking_semaphore, room_locks,
                   room_locks_mutex, db_exclusive, locked>>

\* lines 670-671 and the exit of `with room_lock`
ReleaseRoomLock(w) ==
    /\ w.pc = "unlock"
    /\ locked' = [locked EXCEPT ![w.room_lock] = FALSE]
    /\ Move(w, [w EXCEPT !.pc = "release"])
    /\ UNCHANGED <<rw_vars, api_vars>>
    /\ UNCHANGED <<bookings, now, booking_semaphore, room_locks,
                   room_locks_mutex, db_exclusive>>

\* a handler whose 409 answer returns without releasing the slot
ReleaseSemaphoreLeaky(w) ==
    /\ w.pc = "release"
    /\ booking_semaphore' =
            IF w.result = "conflict_409" THEN booking_semaphore
            ELSE booking_semaphore + 1
    /\ Move(w, [w EXCEPT !.pc = "done"])
    /\ UNCHANGED <<rw_vars, api_vars>>
    /\ UNCHANGED <<bookings, now, room_locks, room_locks_mutex, locked,
                   db_exclusive>>

\* lines 673-675: the outer finally
ReleaseSemaphore(w) ==
    /\ w.pc = "release"
    /\ booking_semaphore' = booking_semaphore + 1
    /\ Move(w, [w EXCEPT !.pc = "done"])
    /\ UNCHANGED <<rw_vars, api_vars>>
    /\ UNCHANGED <<bookings, now, room_locks, room_locks_mutex, locked,
                   db_exclusive>>

(* ------------------- approve_booking / reject_booking ------------------ *)

\* lines 683-687: UPDATE bookings SET status = 'approved', approved_at = ?
\* WHERE id = ?
ApprovedRows(booking_id) ==
    [i \in 1..Len(bookings) |->
        IF i = booking_id
          THEN [bookings[i] EXCEPT !.status = "approved", !.approved_at = now]
          ELSE bookings[i]]

\* lines 710-714: UPDATE bookings SET status = 'rejected', rejected_at = ?
\* WHERE id = ?
RejectedRows(booking_id) ==
    [i \in 1..Len(bookings) |->
        IF i = booking_id
          THEN [bookings[i] EXCEPT !.status = "rejected", !.rejected_at = now]
          ELSE bookings[i]]

\* lines 691-702 and 718-729: the row is read back; 404 when there is none
Found(booking_id) == booking_id \in 1..Len(bookings)

\* an UPDATE that does not wait for the holder of the database
ApproveWithoutWaiting(booking_id) ==
    /\ bookings' = ApprovedRows(booking_id)
    /\ UNCHANGED <<rw_vars, api_vars>>
    /\ UNCHANGED <<now, booking_semaphore, room_locks, room_locks_mutex,
                   locked, db_exclusive, workers>>

\* lines 680-689: the UPDATE waits while a create_booking transaction holds
\* the database exclusively
approve_booking(booking_id) ==
    /\ ~db_exclusive
    /\ bookings' = ApprovedRows(booking_id)
    /\ UNCHANGED <<rw_vars, api_vars>>
    /\ UNCHANGED <<now, booking_semaphore, room_locks, room_locks_mutex,
                   locked, db_exclusive, workers>>

\* lines 707-716
reject_booking(booking_id) ==
    /\ ~db_exclusive
    /\ bookings' = RejectedRows(booking_id)
    /\ UNCHANGED <<rw_vars, api_vars>>
    /\ UNCHANGED <<now, booking_semaphore, room_locks, room_locks_mutex,
                   locked, db_exclusive, workers>>

\* the wall clock advances
Tick ==
    /\ now < MaxClock
    /\ now' = now + 1
    /\ UNCHANGED <<rw_vars, api_vars>>
    /\ UNCHANGED <<bookings, booking_semaphore, room_locks, room_locks_mutex,
                   locked, db_exclusive, workers>>

(* -------------------------- ReaderWriterLock --------------------------- *)

\* the threads blocked in write_ready.wait()
WaitingWriters == {u \in RWThreads : rw_pc[u] = "aw_wait"}

\* a call of acquire_read begins; the history records the writers that are
\* waiting at this moment
CallAcquireRead(t) ==
    /\ rw_pc[t] = "idle"
    /\ rw_pc' = [rw_pc EXCEPT ![t] = "ar_acquire"]
    /\ behind' = [behind EXCEPT ![t] = WaitingWriters]
    /\ UNCHANGED <<readers, writers, read_ready, write_ready, read_waiting,
                   write_waiting>>
    /\ UNCHANGED <<book_vars, api_vars>>

\* line 73: self.read_ready.acquire()
AcquireReadLock(t) ==
    /\ rw_pc[t] = "ar_acquire"
    /\ read_ready = NULL
    /\ read_ready' = t
    /\ rw_pc' = [rw_pc EXCEPT ![t] = "ar_test"]
    /\ UNCHANGED <<readers, writers, write_ready, read_waiting,
                   write_waiting>>
    /\ UNCHANGED behind
    /\ UNCHANGED <<book_vars, api_vars>>

\* line 74: while self.writers > 0
ReaderMustWait == writers > 0

\* line 74: the loop test, made with the lock of read_ready held; writers
\* may change before the next step, since release_write decrements it
\* under the lock of write_ready
AcquireReadTest(t) ==
    /\ rw_pc[t] = "ar_test"
    /\ rw_pc' = [rw_pc EXCEPT ![t] = IF ReaderMustWait THEN "ar_block"
                                     ELSE "ar_enter"]
    /\ UNCHANGED <<readers, writers, read_ready, write_ready, read_waiting,
                   write_waiting>>
    /\ UNCHANGED behind
    /\ UNCHANGED <<book_vars, api_vars>>

\* line 75: wait() releases the lock and blocks
AcquireReadWait(t) ==
    /\ rw_pc[t] = "ar_block"
    /\ read_ready' = NULL
    /\ read_waiting' = read_waiting \cup {t}
    /\ rw_pc' = [rw_pc EXCEPT ![t] = "ar_wait"]
    /\ UNCHANGED <<readers, writers, write_ready, write_waiting>>
    /\ UNCHANGED behind
    /\ UNCHANGED <<book_vars, api_vars>>

\* line 75: wait() returns once notified and once the lock is free again
AcquireReadWake(t) ==
    /\ rw_pc[t] = "ar_wait"
    /\ t \notin read_waiting
    /\ read_ready = NULL
    /\ read_ready' = t
    /\ rw_pc' = [rw_pc EXCEPT ![t] = "ar_test"]
    /\ UNCHANGED <<readers, writers, write_ready, read_waiting,
                   write_waiting>>
    /\ UNCHANGED behind
    /\ UNCHANGED <<book_vars, api_vars>>

\* lines 76-77: self.readers += 1 and the lock is released
AcquireReadEnter(t) ==
    /\ rw_pc[t] = "ar_enter"
    /\ readers' = readers + 1
    /\ read_ready' = NULL
    /\ rw_pc' = [rw_pc EXCEPT ![t] = "reading"]
    /\ UNCHANGED <<writers, write_ready, read_waiting, write_waiting>>
    /\ UNCHANGED behind
    /\ UNCHANGED <<book_vars, api_vars>>

\* a call of release_read begins, by a thread that holds the lock shared
CallReleaseRead(t) ==
    /\ rw_pc[t] = "reading"
    /\ rw_pc' = [rw_pc EXCEPT ![t] = "rr_acquire"]
    /\ UNCHANGED <<readers, writers, read_ready, write_ready, read_waiting,
                   write_waiting>>
    /\ UNCHANGED behind
    /\ UNCHANGED <<book_vars, api_vars>>

\* line 80: self.read_ready.acquire()
ReleaseReadLock(t) ==
    /\ rw_pc[t] = "rr_acquire"
    /\ read_ready = NULL
    /\ read_ready' = t
    /\ rw_pc' = [rw_pc EXCEPT ![t] = "rr_leave"]
    /\ UNCHANGED <<readers, writers, write_ready, read_waiting,
                   write_waiting>>
    /\ UNCHANGED behind
    /\ UNCHANGED <<book_vars, api_vars>>

\* lines 81-84: self.readers -= 1; the last reader calls
\* self.read_ready.notify_all(), which wakes the threads blocked in
\* read_ready.wait() and no other
ReleaseReadLeave(t) ==
    /\ rw_pc[t] = "rr_leave"
    /\ readers' = readers - 1
    /\ IF readers' = 0
         THEN read_waiting' = {}
         ELSE UNCHANGED read_waiting
    /\ read_ready' = NULL
    /\ rw_pc' = [rw_pc EXCEPT ![t] = "idle"]
    /\ behind' = [behind EXCEPT ![t] = {}]
    /\ UNCHANGED <<writers, write_ready, write_waiting>>
    /\ UNCHANGED <<book_vars, api_vars>>

\* a call of acquire_write begins
CallAcquireWrite(t) ==
    /\ rw_pc[t] = "idle"
    /\ rw_pc' = [rw_pc EXCEPT ![t] = "aw_acquire"]
    /\ UNCHANGED <<readers, writers, read_ready, write_ready, read_waiting,
                   write_waiting>>
    /\ UNCHANGED behind
    /\ UNCHANGED <<book_vars, api_vars>>

\* line 87: self.write_ready.acquire()
AcquireWriteLock(t) ==
    /\ rw_pc[t] = "aw_acquire"
    /\ write_ready = NULL
    /\ write_ready' = t
    /\ rw_pc' = [rw_pc EXCEPT ![t] = "aw_test"]
    /\ UNCHANGED <<readers, writers, read_ready, read_waiting,
                   write_waiting>>
    /\ UNCHANGED behind
    /\ UNCHANGED <<book_vars, api_vars>>

\* a loop test that looks at the readers only
WriterIgnoresWriters == readers > 0

\* line 88: while self.writers > 0 or self.readers > 0
WriterMustWait == writers > 0 \/ readers > 0

\* lines 88-89: the loop test; wait() releases the lock and blocks
AcquireWriteTest(t) ==
    /\ rw_pc[t] = "aw_test"
    /\ IF WriterMustWait
         THEN /\ write_ready' = NULL
              /\ write_waiting' = write_waiting \cup {t}
              /\ rw_pc' = [rw_pc EXCEPT ![t] = "aw_wait"]
         ELSE /\ rw_pc' = [rw_pc EXCEPT ![t] = "aw_enter"]
              /\ UNCHANGED <<write_ready, write_waiting>>
    /\ UNCHANGED <<readers, writers, read_ready, read_waiting>>
    /\ UNCHANGED behind
    /\ UNCHANGED <<book_vars, api_vars>>

\* line 89: wait() returns once notified and once the lock is free again
AcquireWriteWake(t) ==
    /\ rw_pc[t] = "aw_wait"
    /\ t \notin write_waiting
    /\ write_ready = NULL
    /\ write_ready' = t
    /\ rw_pc' = [rw_pc EXCEPT ![t] = "aw_test"]
    /\ UNCHANGED <<readers, writers, read_ready, read_waiting,
                   write_waiting>>
    /\ UNCHANGED behind
    /\ UNCHANGED <<book_vars, api_vars>>

\* lines 90-91: self.writers += 1 and the lock is released
AcquireWriteEnter(t) ==
    /\ rw_pc[t] = "aw_enter"
    /\ writers' = writers + 1
    /\ write_ready' = NULL
    /\ rw_pc' = [rw_pc EXCEPT ![t] = "writing"]
    /\ behind' = [u \in RWThreads |-> behind[u] \ {t}]
    /\ UNCHANGED <<readers, read_ready, read_waiting, write_waiting>>
    /\ UNCHANGED <<book_vars, api_vars>>

\* a call of release_write begins, by the thread that holds the lock
\* exclusively
CallReleaseWrite(t) ==
    /\ rw_pc[t] = "writing"
    /\ rw_pc' = [rw_pc EXCEPT ![t] = "rw_acquire"]
    /\ UNCHANGED <<readers, writers, read_ready, write_ready, read_waiting,
                   write_waiting>>
    /\ UNCHANGED behind
    /\ UNCHANGED <<book_vars, api_vars>>

\* line 94: self.write_ready.acquire()
ReleaseWriteLock(t) ==
    /\ rw_pc[t] = "rw_acquire"
    /\ write_ready = NULL
    /\ write_ready' = t
    /\ rw_pc' = [rw_pc EXCEPT ![t] = "rw_leave"]
    /\ UNCHANGED <<readers, writers, read_ready, read_waiting,
                   write_waiting>>
    /\ UNCHANGED behind
    /\ UNCHANGED <<book_vars, api_vars>>

\* lines 95-96: self.writers -= 1; self.write_ready.notify_all()
ReleaseWriteLeave(t) ==
    /\ rw_pc[t] = "rw_leave"
    /\ writers' = writers - 1
    /\ write_waiting' = {}
    /\ rw_pc' = [rw_pc EXCEPT ![t] = "rw_readers"]
    /\ UNCHANGED <<readers, read_ready, write_ready, read_waiting>>
    /\ UNCHANGED behind
    /\ UNCHANGED <<book_vars, api_vars>>

\* line 97: self.read_ready.acquire(), with write_ready still held
ReleaseWriteReadLock(t) ==
    /\ rw_pc[t] = "rw_readers"
    /\ read_ready = NULL
    /\ read_ready' = t
    /\ rw_pc' = [rw_pc EXCEPT ![t] = "rw_notify"]
    /\ UNCHANGED <<readers, writers, write_ready, read_waiting,
                   write_waiting>>
    /\ UNCHANGED behind
    /\ UNCHANGED <<book_vars, api_vars>>

\* a release_write that leaves out self.read_ready.notify_all()
ReleaseWriteSilent(t) ==
    /\ rw_pc[t] = "rw_notify"
    /\ read_ready' = NULL
    /\ write_ready' = NULL
    /\ rw_pc' = [rw_pc EXCEPT ![t] = "idle"]
    /\ UNCHANGED <<readers, writers, write_waiting, read_waiting>>
    /\ UNCHANGED behind
    /\ UNCHANGED <<book_vars, api_vars>>

\* lines 98-100: self.read_ready.notify_all(); both locks are released
ReleaseWriteNotify(t) ==
    /\ rw_pc[t] = "rw_notify"
    /\ read_waiting' = {}
    /\ read_ready' = NULL
    /\ write_ready' = NULL
    /\ rw_pc' = [rw_pc EXCEPT ![t] = "idle"]
    /\ UNCHANGED <<readers, writers, write_waiting>>
    /\ UNCHANGED behind
    /\ UNCHANGED <<book_vars, api_vars>>

(* ----------------------------- get_bookings ---------------------------- *)

\* line 124: int(age_hours / 24)
HoursPerDay == 24

\* lines 113-118; the clock of the model counts whole hours
PRIORITY_LEVELS_LowAsNormal ==
    [urgent |-> 1, high |-> 2, normal |-> 3, low |-> 3]

PRIORITY_LEVELS == [urgent |-> 1, high |-> 2, normal |-> 3, low |-> 4]

\* line 570: PRIORITY_LEVELS.get(booking['priority'], 3)
BasePriority(priority) ==
    IF priority \in DOMAIN PRIORITY_LEVELS THEN PRIORITY_LEVELS[priority]
    ELSE 3

\* int(x / d) of Python for d > 0: the quotient, rounded towards zero
IntDiv(x, d) == IF x >= 0 THEN x \div d ELSE -((-x) \div d)

\* max(a, b)
Max(a, b) == IF a >= b THEN a ELSE b

\* an aging that has no floor
AgingWithoutFloor(base_priority, created_at) ==
    base_priority - IntDiv(now - created_at, HoursPerDay)

\* lines 120-126
calculate_priority_with_aging(base_priority, created_at) ==
    LET age_hours == now - created_at
        aging_bonus == IntDiv(age_hours, HoursPerDay)
        final_priority == Max(1, base_priority - aging_bonus)
    IN  final_priority

\* the ids of the rows with one of the given statuses, in descending order
RECURSIVE IdDesc(_, _)
IdDesc(n, statuses) ==
    IF n = 0 THEN <<>>
    ELSE IF bookings[n].status \in statuses
           THEN <<n>> \o IdDesc(n - 1, statuses)
           ELSE IdDesc(n - 1, statuses)

\* a selection that misses the newest row
SelectedButNewest(status) ==
    LET n == IF Len(bookings) = 0 THEN 0 ELSE Len(bookings) - 1
    IN  IF status = ""
          THEN IdDesc(n, {"approved"}) \o IdDesc(n, {"pending"})
               \o IdDesc(n, {"rejected"})
          ELSE IdDesc(n, {status})

\* lines 528-547: SELECT * FROM bookings [WHERE status = ?] ORDER BY
\* status ASC, id DESC; the status texts order as approved, pending,
\* rejected
Selected(status) ==
    IF status = ""
      THEN IdDesc(Len(bookings), {"approved"})
           \o IdDesc(Len(bookings), {"pending"})
           \o IdDesc(Len(bookings), {"rejected"})
      ELSE IdDesc(Len(bookings), {status})

\* lines 551-574: the entry of row id; a pending row also carries its
\* effective priority and its waiting time, round(hours, 1), which is the
\* number of hours itself when the clock counts whole hours
Entry(id) ==
    LET row == bookings[id]
        booking == [id |-> id, room |-> row.room, start |-> row.start,
                    end |-> row.end, status |-> row.status,
                    priority |-> row.priority, timestamp |-> row.timestamp,
                    approvedAt |-> row.approved_at,
                    rejectedAt |-> row.rejected_at]
    IN  IF row.status = "pending"
          THEN booking @@
               [effectivePriority |->
                    calculate_priority_with_aging(BasePriority(row.priority),
                                                  row.timestamp),
                waitingHours |-> now - row.timestamp]
          ELSE booking

\* line 579: key=lambda x: x.get('effectivePriority', 999)
SortKey(booking) ==
    IF "effectivePriority" \in DOMAIN booking THEN booking.effectivePriority
    ELSE 999

\* list.sort is stable: an entry goes behind the entries whose key is not
\* greater than its own
RECURSIVE PutInOrder(_, _)
PutInOrder(sorted, booking) ==
    IF sorted = <<>> THEN <<booking>>
    ELSE IF SortKey(sorted[Len(sorted)]) <= SortKey(booking)
           THEN Append(sorted, booking)
           ELSE Append(PutInOrder(SubSeq(sorted, 1, Len(sorted) - 1),
                                  booking),
                       sorted[Len(sorted)])

\* line 579: bookings.sort(key=...)
RECURSIVE Sorted(_)
Sorted(list) ==
    IF list = <<>> THEN <<>>
    ELSE PutInOrder(Sorted(SubSeq(list, 1, Len(list) - 1)), list[Len(list)])

\* lines 516-586: acquire_read returns while no writer holds the lock (the
\* program never calls acquire_write), the SELECT waits while a transaction
\* holds the database exclusively, and release_read takes back what
\* acquire_read did to the lock
get_bookings(status) ==
    /\ ~ReaderMustWait
    /\ read_ready = NULL
    /\ ~db_exclusive
    /\ LET ids == Selected(status)
           list == [k \in 1..Len(ids) |-> Entry(ids[k])]
       IN  response' = [status |-> status,
                        bookings |-> IF status = "pending" THEN Sorted(list)
                                     ELSE list]
    /\ UNCHANGED <<book_vars, rw_vars, txn>>

\* the wall clock advances by a day
Advance ==
    /\ now + HoursPerDay <= MaxDays * HoursPerDay + MaxClock
    /\ now' = now + HoursPerDay
    /\ UNCHANGED <<rw_vars, api_vars>>
    /\ UNCHANGED <<bookings, booking_semaphore, room_locks, room_locks_mutex,
                   locked, db_exclusive, workers>>

(* ------------------------- with_db_transaction ------------------------- *)

\* a call of a function wrapped by with_db_transaction begins: the first
\* frame of wrapper
CallWrapped ==
    /\ txn.pc = "idle"
    /\ txn' = [pc |-> "begin", depth |-> 1, result |-> "none"]
    /\ UNCHANGED <<book_vars, rw_vars, response>>

\* lines 133-136: connect and BEGIN EXCLUSIVE, granted
WrapperBegin ==
    /\ txn.pc = "begin"
    /\ ~db_exclusive
    /\ db_exclusive' = TRUE
    /\ txn' = [txn EXCEPT !.pc = "func"]
    /\ UNCHANGED <<rw_vars, response>>
    /\ UNCHANGED <<bookings, now, booking_semaphore, room_locks,
                   room_locks_mutex, locked, workers>>

\* lines 137-139: func returns, commit; every frame returns the result.
\* No function of the program is wrapped, so func writes nothing here.
WrapperCommit ==
    /\ txn.pc = "func"
    /\ db_exclusive' = FALSE
    /\ txn' = [txn EXCEPT !.pc = "done", !.result = "returned"]
    /\ UNCHANGED <<rw_vars, response>>
    /\ UNCHANGED <<bookings, now, booking_semaphore, room_locks,
                   room_locks_mutex, locked, workers>>

\* lines 145-148: func raises another exception; rollback and re-raise
WrapperRaise ==
    /\ txn.pc = "func"
    /\ db_exclusive' = FALSE
    /\ txn' = [txn EXCEPT !.pc = "done", !.result = "raised"]
    /\ UNCHANGED <<rw_vars, response>>
    /\ UNCHANGED <<bookings, now, booking_semaphore, room_locks,
                   room_locks_mutex, locked, workers>>

\* lines 140-144: BEGIN EXCLUSIVE times out (sqlite3.OperationalError);
\* rollback, sleep, and wrapper calls itself: one more frame
WrapperRetry ==
    /\ txn.pc = "begin"
    /\ db_exclusive
    /\ txn.depth < MaxDepth
    /\ txn' = [txn EXCEPT !.depth = txn.depth + 1]
    /\ UNCHANGED <<book_vars, rw_vars, response>>

\* line 144 at the deepest frame the interpreter allows: the call raises
\* RecursionError, which every frame passes on (lines 145-150)
WrapperOverflow ==
    /\ txn.pc = "begin"
    /\ db_exclusive
    /\ txn.depth = MaxDepth
    /\ txn' = [txn EXCEPT !.pc = "done", !.result = "recursion_error"]
    /\ UNCHANGED <<book_vars, rw_vars, response>>

(* --------------------------- specifications ---------------------------- *)

\* workers that hold an admission slot
HoldsSlot(w) == w.pc \notin {"idle", "done"}
Admitted == {w \in BagToSet(workers) : HoldsSlot(w)}

Next ==
    \/ \E w \in At("idle"), d \in Requests(Rooms, Intervals, {"normal"}) :
            Arrive(w, d)
    \/ \E w \in BagToSet(workers) : GetRoomLockEnter(w)
    \/ \E w \in BagToSet(workers) : GetRoomLockReturn(w)
    \/ \E w \in BagToSet(workers) : AcquireRoomLock(w)
    \/ \E w \in BagToSet(workers) : Begin(w)
    \/ \E w \in BagToSet(workers) : BeginTimeout(w)
    \/ \E w \in BagToSet(workers) : Query(w)
    \/ \E w \in BagToSet(workers) : Insert(w)
    \/ \E w \in BagToSet(workers) : ReleaseRoomLock(w)
    \/ \E w \in BagToSet(workers) : ReleaseSemaphore(w)
    \/ \E id \in 1..Len(bookings) : approve_booking(id)
    \/ \E id \in 1..Len(bookings) : reject_booking(id)
    \/ Tick

Spec == Init /\ [][Next]_vars

\* the admission specification: more workers than admission slots, few
\* request bodies, and a ledger that a previous run of the server left with
\* an approved booking of room 1
AdmRequests ==
    {[room |-> 1, start |-> 1, end |-> 2, priority |-> "normal",
      kind |-> "ok"],
     [room |-> 2, start |-> 1, end |-> 2, priority |-> "normal",
      kind |-> "ok"],
     [room |-> NULL, start |-> NULL, end |-> NULL, priority |-> "normal",
      kind |-> "noroom"]}

StoredRow ==
    [room |-> 1, start |-> 1, end |-> 2, status |-> "approved",
     priority |-> "normal", timestamp |-> 1, approved_at |-> 1,
     rejected_at |-> NULL]

InitAdmission == InitWith(NumAdmClients, <<StoredRow>>)

NextAdmission ==
    \/ \E w \in At("idle"), d \in AdmRequests : Arrive(w, d)
    \/ \E w \in BagToSet(workers) : GetRoomLockEnter(w)
    \/ \E w \in BagToSet(workers) : GetRoomLockReturn(w)
    \/ \E w \in BagToSet(workers) : AcquireRoomLock(w)
    \/ \E w \in BagToSet(workers) : Begin(w)
    \/ \E w \in BagToSet(workers) : BeginTimeout(w)
    \/ \E w \in BagToSet(workers) : Query(w)
    \/ \E w \in BagToSet(workers) : Insert(w)
    \/ \E w \in BagToSet(workers) : ReleaseRoomLock(w)
    \/ \E w \in BagToSet(workers) : ReleaseSemaphore(w)

SpecAdmission == InitAdmission /\ [][NextAdmission]_vars

\* the reservation specification: calls for one room with intervals of
\* which one contains the other, and the administrator's decisions.  With
\* one room and no other transaction, BEGIN EXCLUSIVE never finds the
\* database held.
ReserveRequests ==
    {[room |-> 1, start |-> i[1], end |-> i[2], priority |-> "normal",
      kind |-> "ok"] : i \in {<<1, 4>>, <<2, 3>>}}

InitReserve == InitWith(NumReserveClients, <<>>)

NextReserve ==
    \/ \E w \in At("idle"), d \in ReserveRequests : Arrive(w, d)
    \/ \E w \in BagToSet(workers) : GetRoomLockEnter(w)
    \/ \E w \in BagToSet(workers) : GetRoomLockReturn(w)
    \/ \E w \in BagToSet(workers) : AcquireRoomLock(w)
    \/ \E w \in BagToSet(workers) : Begin(w)
    \/ \E w \in BagToSet(workers) : Query(w)
    \/ \E w \in BagToSet(workers) : Insert(w)
    \/ \E w \in BagToSet(workers) : ReleaseRoomLock(w)
    \/ \E w \in BagToSet(workers) : ReleaseSemaphore(w)
    \/ \E id \in 1..Len(bookings) : approve_booking(id)
    \/ \E id \in 1..Len(bookings) : reject_booking(id)

SpecReserve == InitReserve /\ [][NextReserve]_vars

\* the listing specification: a ledger that a previous run of the server
\* left with a pending 'low' request, requests of every priority for one
\* room, approvals, hours that pass, and listings; here too BEGIN EXCLUSIVE
\* never finds the database held
StoredPending ==
    [room |-> 1, start |-> 1, end |-> 2, status |-> "pending",
     priority |-> "low", timestamp |-> 1, approved_at |-> NULL,
     rejected_at |-> NULL]

ListRequests ==
    {[room |-> 1, start |-> 1, end |-> 2, priority |-> p, kind |-> "ok"] :
        p \in DOMAIN PRIORITY_LEVELS}

InitListing == InitWith(NumListClients, <<StoredPending>>)

NextListing ==
    \/ \E w \in At("idle"), d \in ListRequests : Arrive(w, d)
    \/ \E w \in BagToSet(workers) : GetRoomLockEnter(w)
    \/ \E w \in BagToSet(workers) : GetRoomLockReturn(w)
    \/ \E w \in BagToSet(workers) : AcquireRoomLock(w)
    \/ \E w \in BagToSet(workers) : Begin(w)
    \/ \E w \in BagToSet(workers) : Query(w)
    \/ \E w \in BagToSet(workers) : Insert(w)
    \/ \E w \in BagToSet(workers) : ReleaseRoomLock(w)
    \/ \E w \in BagToSet(workers) : ReleaseSemaphore(w)
    \/ \E id \in 1..Len(bookings) : approve_booking(id)
    \/ Tick
    \/ \E status \in {"pending", ""} : get_bookings(status)

SpecListing == InitListing /\ [][NextListing]_vars

\* the aging specification: the same ledger and requests, days that pass,
\* and listings of the pending requests
NextAging ==
    \/ \E w \in At("idle"), d \in ListRequests : Arrive(w, d)
    \/ \E w \in BagToSet(workers) : GetRoomLockEnter(w)
    \/ \E w \in BagToSet(workers) : GetRoomLockReturn(w)
    \/ \E w \in BagToSet(workers) : AcquireRoomLock(w)
    \/ \E w \in BagToSet(workers) : Begin(w)
    \/ \E w \in BagToSet(workers) : Query(w)
    \/ \E w \in BagToSet(workers) : Insert(w)
    \/ \E w \in BagToSet(workers) : ReleaseRoomLock(w)
    \/ \E w \in BagToSet(workers) : ReleaseSemaphore(w)
    \/ Advance
    \/ get_bookings("pending")

SpecAging == InitListing /\ [][NextAging]_vars

\* the transaction specification: a call of a wrapped function beside calls
\* of create_booking, which hold the database for as long as they take
NextTxn ==
    \/ \E w \in At("idle"), d \in AdmRequests : Arrive(w, d)
    \/ \E w \in BagToSet(workers) : GetRoomLockEnter(w)
    \/ \E w \in BagToSet(workers) : GetRoomLockReturn(w)
    \/ \E w \in BagToSet(workers) : AcquireRoomLock(w)
    \/ \E w \in BagToSet(workers) : Begin(w)
    \/ \E w \in BagToSet(workers) : BeginTimeout(w)
    \/ \E w \in BagToSet(workers) : Query(w)
    \/ \E w \in BagToSet(workers) : Insert(w)
    \/ \E w \in BagToSet(workers) : ReleaseRoomLock(w)
    \/ \E w \in BagToSet(workers) : ReleaseSemaphore(w)
    \/ CallWrapped
    \/ WrapperBegin
    \/ WrapperCommit
    \/ WrapperRaise
    \/ WrapperRetry
    \/ WrapperOverflow

SpecTxn == Init /\ [][NextTxn]_vars

\* the lock specification: threads call acquire_read / release_read and
\* acquire_write / release_write in matching pairs, in any interleaving
\* the steps of thread t inside a call of the lock
RWStep(t) ==
    \/ AcquireReadLock(t)
    \/ AcquireReadTest(t)
    \/ AcquireReadWait(t)
    \/ AcquireReadWake(t)
    \/ AcquireReadEnter(t)
    \/ ReleaseReadLock(t)
    \/ ReleaseReadLeave(t)
    \/ AcquireWriteLock(t)
    \/ AcquireWriteTest(t)
    \/ AcquireWriteWake(t)
    \/ AcquireWriteEnter(t)
    \/ ReleaseWriteLock(t)
    \/ ReleaseWriteLeave(t)
    \/ ReleaseWriteReadLock(t)
    \/ ReleaseWriteNotify(t)

NextRW ==
    \/ \E t \in RWThreads : CallAcquireRead(t)
    \/ \E t \in RWThreads : CallReleaseRead(t)
    \/ \E t \in RWThreads : CallAcquireWrite(t)
    \/ \E t \in RWThreads : CallReleaseWrite(t)
    \/ \E t \in RWThreads : RWStep(t)

SpecRW == Init /\ [][NextRW]_vars

\* every holder releases in the end, and a thread inside a call that can
\* take a step infinitely often takes it; new calls of acquire_read and
\* acquire_write arrive or not as the callers please
FairSpecRW ==
    /\ SpecRW
    /\ \A t \in RWThreads :
          /\ SF_vars(RWStep(t))
          /\ WF_vars(CallReleaseRead(t))
          /\ WF_vars(CallReleaseWrite(t))

(* ------------------------------- claims -------------------------------- *)

\* two reservations whose half-open intervals share an instant
Overlap(a, b) ==
    /\ a.start < a.end
    /\ b.start < b.end
    /\ a.start < b.end
    /\ b.start < a.end

\* C1: in every reachable state no two reservations with status 'approved'
\* on the same room have overlapping half-open intervals [start, end).
C1_ApprovedNeverOverlap ==
    \A i, j \in 1..Len(bookings) :
        (/\ i < j
         /\ bookings[i].status = "approved"
         /\ bookings[j].status = "approved"
         /\ bookings[i].room = bookings[j].room)
            => ~Overlap(bookings[i], bookings[j])

\* the half-open overlap test: existing.start < requested.end and
\* existing.end > requested.start, against the approved rows of the room
HalfOpenTaken(d) ==
    \E i \in 1..Len(bookings) :
        /\ bookings[i].room = d.room
        /\ bookings[i].status = "approved"
        /\ bookings[i].start < d.end
        /\ bookings[i].end > d.start

\* the step in which worker w answers 409
Answers409(w) ==
    Move(w, [w EXCEPT !.pc = "unlock", !.result = "conflict_409"])

\* C2: the availability check of create_booking answers Conflict (409) if
\* and only if some approved reservation on the same room satisfies the
\* half-open overlap test against the requested interval.
C2_ConflictIffHalfOpenOverlap ==
    [][\A w \in At("query") :
          Query(w) => (Answers409(w) <=> HalfOpenTaken(w.data))]_vars

\* C3: at every moment at most 5 create_booking calls have passed the
\* admission gate and not yet released their slot.
C3_AtMostCapacityAdmitted == CountIn(Admitted) <= Capacity

\* the calls not yet made, and the calls turned away
Idle == At("idle")
Busy == {w \in At("done") : w.result = "busy_503"}

\* five calls hold a slot and a sixth has been turned away
C3_Witness == CountIn(Admitted) = Capacity /\ CountIn(Busy) = 1

\* C4: a call that arrives while 5 calls are in flight is answered
\* ServiceBusy (503) by its very next step, which waits for nothing and
\* leaves the ledger, the room locks and the slot count unchanged.
C4_BusyAtOnceAndWithoutEffect ==
    /\ [](CountIn(Idle) > 0 =>
            ENABLED (\E w \in At("idle"), d \in AdmRequests : Arrive(w, d)))
    /\ [][(CountIn(Admitted) = Capacity /\ CountIn(Idle)' # CountIn(Idle))
            => /\ CountIn(Busy)' = CountIn(Busy) + 1
               /\ CountIn(Admitted)' = CountIn(Admitted)
               /\ UNCHANGED <<bookings, booking_semaphore, room_locks,
                              room_locks_mutex, locked, db_exclusive>>]_vars

\* a call was turned away while the five admitted ones were spread over the
\* registry, a room lock and the store transaction
C4_Witness ==
    /\ CountIn(Busy) = 1
    /\ CountIn(Admitted) = Capacity
    /\ db_exclusive
    /\ room_locks_mutex

\* C5: every admitted call gives its slot back exactly once on every exit
\* path and a call turned away gives none back: the free slots are always
\* 5 minus the calls in flight, so exactly 5 when no call is in flight.
C5_SlotsBalance == booking_semaphore = Capacity - CountIn(Admitted)

HasResult(r) == \E w \in At("done") : w.result = r

\* every call has returned, by every exit path
C5_Witness ==
    /\ CountIn(Admitted) = 0
    /\ CountIn(Idle) = 0
    /\ booking_semaphore = Capacity
    /\ HasResult("ok_200")
    /\ HasResult("conflict_409")
    /\ HasResult("locked_503")
    /\ HasResult("error_500")
    /\ HasResult("busy_503")

\* worker w is inside the `with room_lock` block of room r
InSection(w, r) ==
    w.pc \in {"begin", "query", "insert", "unlock"} /\ w.data.room = r

\* number of workers inside the block of room r
InSectionCount(r) ==
    CountIn({w \in BagToSet(workers) : InSection(w, r)})

\* C6: for every room at most one thread at a time is inside the
\* check-and-insert section, and every caller of get_room_lock for a room
\* obtains the one lock registered for it, lazily created or not.
C6_OneThreadPerRoom ==
    /\ \A r \in Rooms : InSectionCount(r) <= 1
    /\ \A w \in BagToSet(workers) :
          w.room_lock # NULL => w.room_lock = room_locks[w.data.room]

\* both rooms are in use at once, and a second caller for room 2 waits for
\* the lock that the first caller created
C6_Witness ==
    /\ InSectionCount(1) = 1
    /\ InSectionCount(2) = 1
    /\ \E w \in At("acquire_room_lock") : w.data.room = 2

\* C7: approve and reject change a reservation only while its status is
\* 'pending': a reservation that is approved or rejected never changes again.
C7_DecidedRowsNeverChange ==
    [][\A i \in 1..Len(bookings) :
          bookings[i].status # "pending" => bookings'[i] = bookings[i]]_vars

\* C8: create_booking called with start >= end answers ValidationError and
\* never stores a row.
C8_EmptyIntervalRefused ==
    /\ \A i \in 1..Len(bookings) : bookings[i].start < bookings[i].end
    /\ \A w \in At("done") :
          (w.data.kind = "ok" /\ w.data.start >= w.data.end)
              => w.result = "validation_error"

\* C9: no state has one thread holding the ReaderWriterLock in write mode
\* while another holds it in read mode.
C9_NoReaderBesideWriter ==
    ~ \E t, u \in RWThreads : rw_pc[t] = "writing" /\ rw_pc[u] = "reading"

\* thread t is inside acquire_write
InAcquireWrite(t) ==
    rw_pc[t] \in {"aw_acquire", "aw_test", "aw_wait", "aw_enter"}

\* C10: a thread waiting in acquire_write is eventually granted the lock,
\* provided every holder eventually releases.
C10_WriterEventuallyGranted ==
    \A t \in RWThreads : InAcquireWrite(t) ~> (rw_pc[t] = "writing")

\* C11: once a thread waits in acquire_write, no call of acquire_read that
\* begins after that is granted before the writer is: a thread that reads
\* has no writer still waiting from before its call began.
C11_ReadersQueueBehindWriter ==
    \A t \in RWThreads : rw_pc[t] = "reading" => behind[t] = {}

\* the threads that hold the lock in write mode: from self.writers += 1 to
\* self.writers -= 1
WriteHolders ==
    {t \in RWThreads : rw_pc[t] \in {"writing", "rw_acquire", "rw_leave"}}

\* C19: at most one thread holds the ReaderWriterLock in write mode at any
\* time, however the calls of several writers interleave.
C19_OneWriter ==
    /\ Cardinality(WriteHolders) <= 1
    /\ writers = Cardinality(WriteHolders)

\* one thread writes while another waits in acquire_write, and a third has
\* called acquire_write as well
C19_Witness ==
    /\ \E t \in RWThreads : rw_pc[t] = "writing"
    /\ WaitingWriters # {}
    /\ Cardinality({t \in RWThreads : InAcquireWrite(t)}) >= 2

\* the entries of the last answer, when it answers status=pending
PendingList == IF response.status = "pending" THEN response.bookings ELSE <<>>

\* C12: the list returned for status=pending is in ascending order of
\* effective priority, and entries of equal effective priority are in
\* ascending order of creation time.
C12_PendingOrderedFifo ==
    \A k \in 1..(Len(PendingList) - 1) :
        LET a == PendingList[k]
            b == PendingList[k + 1]
        IN  \/ a.effectivePriority < b.effectivePriority
            \/ /\ a.effectivePriority = b.effectivePriority
               /\ a.timestamp <= b.timestamp

\* the entry of reservation id in a list
EntriesOf(list, id) == {k \in 1..Len(list) : list[k].id = id}

\* C13: for a fixed base rank the effective priority never increases as the
\* wait grows, and it is never below 1: a reservation listed as pending
\* twice has in the later list at most the effective priority of the
\* earlier one.
C13_AgingMonotoneAndFloored ==
    [][/\ \A k \in 1..Len(PendingList') :
              PendingList'[k].effectivePriority >= 1
       /\ \A k \in 1..Len(PendingList), m \in 1..Len(PendingList') :
              (/\ PendingList[k].id = PendingList'[m].id
               /\ PendingList[k].waitingHours <= PendingList'[m].waitingHours)
                  => PendingList'[m].effectivePriority
                        <= PendingList[k].effectivePriority]_vars

\* a listed reservation has aged below its base rank, down to the floor
C13_Witness ==
    \E k \in 1..Len(PendingList) :
        /\ PendingList[k].priority = "high"
        /\ PendingList[k].waitingHours >= 2 * HoursPerDay
        /\ PendingList[k].effectivePriority = 1

\* the ranks of the declared priorities
Rank(priority) ==
    CASE priority = "urgent" -> 1
      [] priority = "high" -> 2
      [] priority = "normal" -> 3
      [] priority = "low" -> 4

\* C14: for every base rank b (urgent=1, high=2, normal=3, low=4) and every
\* wait of h >= 0 hours the effective priority is max(1, b - floor(h / 24));
\* a 'low' request that has waited 72 hours has effective priority 1.
C14_AgingFormula ==
    \A k \in 1..Len(PendingList) :
        LET e == PendingList[k]
            aged == Rank(e.priority) - (e.waitingHours \div 24)
        IN  /\ e.waitingHours >= 0
            /\ e.effectivePriority = IF aged >= 1 THEN aged ELSE 1
            /\ (e.priority = "low" /\ e.waitingHours >= 72)
                  => e.effectivePriority = 1

\* a 'low' request is listed 72 hours after its creation, and a request of
\* another rank with it
C14_Witness ==
    /\ \E k \in 1..Len(PendingList) :
          /\ PendingList[k].priority = "low"
          /\ PendingList[k].waitingHours = 72
          /\ PendingList[k].effectivePriority = 1
    /\ \E k \in 1..Len(PendingList) : PendingList[k].priority # "low"

\* C15: a listing with status=pending contains every reservation that
\* create_booking has stored and that was not approved or rejected since
\* exactly once, with status 'pending', and with a waiting time of 0 when
\* the listing is read at the creation instant.
C15_CreatedThenListedOnce ==
    [][get_bookings("pending") =>
          \A id \in 1..Len(bookings) :
              bookings[id].status = "pending" =>
                  /\ Cardinality(EntriesOf(PendingList', id)) = 1
                  /\ \A k \in EntriesOf(PendingList', id) :
                        /\ PendingList'[k].status = "pending"
                        /\ (now = bookings[id].timestamp
                              => PendingList'[k].waitingHours = 0)]_vars

\* a call of create_booking has succeeded and the listing read in the same
\* hour shows its reservation, with another, older one
C15_Witness ==
    /\ \E w \in BagToSet(workers) : w.result = "ok_200"
    /\ \E k \in 1..Len(PendingList) :
          /\ PendingList[k].id = Len(bookings)
          /\ PendingList[k].timestamp = now
          /\ PendingList[k].waitingHours = 0
    /\ Len(PendingList) = 2

\* a step of a call that answers or has answered 409
ConflictCallMoves ==
    \E w \in BagToSet(workers') :
        /\ w.result = "conflict_409"
        /\ CopiesIn(w, workers') > CopiesIn(w, workers)

\* C16: a create_booking call that answers Conflict writes no row: its
\* steps leave the set of reservations and every reservation's fields as
\* they were.
C16_ConflictWritesNothing ==
    [][ConflictCallMoves => bookings' = bookings]_vars

\* a call has answered 409 and returned, against the one stored reservation
C16_Witness ==
    /\ \E w \in At("done") : w.result = "conflict_409"
    /\ Len(bookings) = 1
    /\ bookings[1].status = "approved"

\* two distinct calls with local states w1 and w2
Distinct(w1, w2) == w1 # w2 \/ CopiesIn(w1, workers) > 1

\* two calls for the same room whose requested intervals overlap
Contend(w1, w2) ==
    /\ Distinct(w1, w2)
    /\ w1.data.kind = "ok"
    /\ w2.data.kind = "ok"
    /\ w1.data.room = w2.data.room
    /\ Overlap(w1.data, w2.data)

\* C17 as stated: of two concurrent create_booking calls on the same room
\* whose intervals overlap at most one inserts a reservation.
C17_AtMostOneInserts ==
    \A w1, w2 \in Admitted :
        Contend(w1, w2) => ~(w1.result = "ok_200" /\ w2.result = "ok_200")

\* the positions inside `with room_lock`
InBlock(w) == w.pc \in {"begin", "query", "insert", "unlock"}

\* C17 as amended: two concurrent create_booking calls on the same room
\* whose intervals overlap are never both between the start of the overlap
\* check and the end of the insert; the room lock serializes them, and both
\* may insert, since the check looks at approved reservations only.
C17_ChecksSerialized ==
    \A w1, w2 \in Admitted :
        Contend(w1, w2) => ~(InBlock(w1) /\ InBlock(w2))

\* one call has inserted its reservation and the other, which overlaps it,
\* has passed its own check since
C17_Witness ==
    \E w1, w2 \in Admitted :
        /\ Contend(w1, w2)
        /\ w1.result = "ok_200"
        /\ w1.pc = "release"
        /\ w2.pc = "insert"

\* the approved reservations of room r
ApprovedOf(r) ==
    {<<i, bookings[i]>> : i \in {j \in 1..Len(bookings) :
        bookings[j].room = r /\ bookings[j].status = "approved"}}

\* C18: between the overlap query of a create_booking call and the commit
\* of its insert the set of approved reservations of the room does not
\* change, whatever approve and reject calls are made.
C18_ApprovedStableDuringInsert ==
    [][\A w \in At("insert") :
          ApprovedOf(w.data.room)' = ApprovedOf(w.data.room)]_vars

\* a call is between its query and its commit while a reservation of the
\* same room is pending, for an administrator to approve
C18_Witness ==
    \E w \in At("insert") :
        \E i \in 1..Len(bookings) :
            /\ bookings[i].room = w.data.room
            /\ bookings[i].status = "pending"
            /\ Overlap(bookings[i], w.data)

\* C20: with_db_transaction retries a transaction that meets contention
\* only a bounded number of times and then hands the transient failure to
\* its caller: a call ends with the result of func, with the exception of
\* func or with the transient failure, never by exhausting the stack.
C20_RetriesBoundedThenTransient ==
    txn.pc = "done" =>
        txn.result \in {"returned", "raised", "transient_failure"}

\* the room locks that are held
HeldLocks == {l \in 1..Len(locked) : locked[l]}

\* the workers inside `with room_lock`, who each hold the lock they got
Holders == {w \in BagToSet(workers) : InBlock(w)}

\* a step of a create_booking call that has been admitted
InFlightStep ==
    \E w \in Admitted :
        \/ GetRoomLockEnter(w)
        \/ GetRoomLockReturn(w)
        \/ AcquireRoomLock(w)
        \/ Begin(w)
        \/ BeginTimeout(w)
        \/ Query(w)
        \/ Insert(w)
        \/ ReleaseRoomLock(w)
        \/ ReleaseSemaphore(w)

\* C21: create_booking calls never deadlock: as many room locks are held
\* as there are threads inside `with room_lock`, each holding its own one;
\* the thread that holds the registry mutex holds no room lock and runs no
\* transaction; and whenever a call is in flight some call in flight can
\* take a step.
C21_NoDeadlock ==
    /\ Cardinality(HeldLocks) = CountIn(Holders)
    /\ \A w \in Holders : w.room_lock \in HeldLocks
    /\ room_locks_mutex =>
          /\ CountIn(At("in_registry")) = 1
          /\ \A w \in At("in_registry") : w.room_lock = NULL
    /\ ~room_locks_mutex => CountIn(At("in_registry")) = 0
    /\ CountIn(Admitted) > 0 => ENABLED InFlightStep

\* calls wait at every blocking point at once: for the registry mutex, for
\* a room lock, and for the database
C21_Witness ==
    /\ room_locks_mutex
    /\ At("get_room_lock") # {}
    /\ \E w \in At("acquire_room_lock") : locked[w.room_lock]
    /\ db_exclusive
    /\ At("begin") # {}

\* the workers that hold a room lock or wait for one
LockUsers ==
    {w \in BagToSet(workers) : w.pc = "acquire_room_lock" \/ InBlock(w)}

\* the steps of a call, in the order of the claim
StepRank(pc) ==
    CASE pc = "idle" -> 0
      [] pc = "get_room_lock" -> 1
      [] pc = "in_registry" -> 2
      [] pc = "acquire_room_lock" -> 3
      [] pc = "begin" -> 4
      [] pc = "query" -> 5
      [] pc = "insert" -> 6
      [] pc = "unlock" -> 7
      [] pc = "release" -> 8
      [] pc = "done" -> 9

\* C22: in every create_booking call the slot is taken first, then the
\* room lock, then the transaction runs, then the room lock is released,
\* then the slot: a call only moves forward through these steps, the
\* transaction runs inside a held room lock, every thread that holds or
\* waits for a room lock holds a slot, and at most 5 threads hold or wait
\* for room locks over all rooms.
C22_OrderAndSlotHeld ==
    /\ [](/\ CountIn(LockUsers) <= Capacity - booking_semaphore
          /\ CountIn(LockUsers) <= Capacity
          /\ db_exclusive =>
                \E w \in Holders : /\ w.pc \in {"query", "insert"}
                                   /\ locked[w.room_lock])
    /\ [][/\ workers' # workers =>
                \A w \in BagToSet(workers) :
                    CopiesIn(w, workers') < workers[w] =>
                        \A v \in BagToSet(workers') :
                            CopiesIn(v, workers) < workers'[v] =>
                                StepRank(v.pc) > StepRank(w.pc)
          /\ booking_semaphore' > booking_semaphore
                => CountIn(LockUsers') = CountIn(LockUsers)
          /\ HeldLocks' # HeldLocks
                => /\ booking_semaphore' = booking_semaphore
                   /\ db_exclusive' = db_exclusive]_vars

\* five threads hold or wait for the locks of both rooms and a sixth call
\* was turned away
C22_Witness ==
    /\ CountIn(LockUsers) = Capacity
    /\ \A r \in Rooms : \E w \in LockUsers : w.data.room = r
    /\ booking_semaphore = 0
    /\ CountIn(Busy) >= 1

\* every thread but t is outside the lock: it holds nothing and is in no
\* call
OthersIdle(t) == \A u \in RWThreads \ {t} : rw_pc[u] = "idle"

\* C23: a thread that waits in acquire_write because readers hold the lock
\* is granted the lock once all readers have released and no new reader or
\* writer arrives: it never stays blocked in write_ready.wait() for ever
\* while every other thread has left the lock and stays away.
C23_LastReaderWakesWriter ==
    \A t \in RWThreads :
        []<>~(rw_pc[t] = "aw_wait" /\ OthersIdle(t))

\* thread t is inside acquire_read
InAcquireRead(t) ==
    rw_pc[t] \in {"ar_acquire", "ar_test", "ar_block", "ar_wait", "ar_enter"}

\* no thread holds the lock in write mode: writers is 0 and no thread is
\* about to increment it or is inside release_write (threads may still be
\* inside acquire_write, testing or waiting)
NoWriterHolds ==
    /\ writers = 0
    /\ \A u \in RWThreads :
          rw_pc[u] \notin {"aw_enter", "writing", "rw_acquire", "rw_notify",
                           "rw_readers", "rw_leave"}

\* C24: a thread that waits in acquire_read because a writer holds the lock
\* is granted the lock after the writer's release_write when no further
\* writer acquires: it never stays inside acquire_read for ever while no
\* writer holds the lock, also when release_write ran between its test of
\* writers and its wait.
C24_WriterReleaseWakesReader ==
    \A t \in RWThreads :
        []<>~(InAcquireRead(t) /\ NoWriterHolds)

\* a reader has found writers > 0 and has not yet called wait(), while the
\* writer has already decremented writers and is about to notify
C24_Witness ==
    \E t, u \in RWThreads :
        /\ rw_pc[t] = "ar_block"
        /\ rw_pc[u] = "rw_readers"
        /\ writers = 0

====
